---- MODULE Spec2Model ----
(***************************************************************************)
(* Model of setup_structure.py: a script that walks a list of relative     *)
(* directory names, joins each one to base_dir, creates it with            *)
(* os.makedirs(path, exist_ok=True) and prints a confirmation line; after  *)
(* the loop it prints a summary.                                           *)
(*                                                                         *)
(* The filesystem is a map from paths (sequences of segments, the empty    *)
(* sequence being the always present root / working directory) to          *)
(* "none", "dir" or "file".  os.makedirs is modelled at the granularity of *)
(* its mkdir system calls.                                                 *)
(***************************************************************************)
EXTENDS Naturals, Sequences, FiniteSets, TLC

VARIABLES
    directories,  \* the list iterated by the for loop
    fs,           \* filesystem: path -> "none" | "dir" | "file"
    denied,       \* directories in which the OS refuses mkdir (EACCES)
    idx,          \* 1-based position of the for loop in directories
    path,         \* the local variable path (line 47)
    pc,           \* "for", "makedirs", "mkdir", "print", "final", "done", "failed"
    stack,        \* pending mkdir calls of the makedirs recursion, innermost first
    out,          \* lines written to standard output by this run
    err,          \* the uncaught exception, "none" while there is none
    run,          \* number of the current invocation of the script
    fs0,          \* history: filesystem before the first invocation
    attempted,    \* history: positions whose os.makedirs call has started
    lastFs,       \* history: filesystem at the end of the previous invocation
    lastOk,       \* history: the previous invocation ended without error
    permuted      \* history: this invocation runs on a reordered list

vars == <<directories, fs, denied, idx, path, pc, stack, out, err, run,
          fs0, attempted, lastFs, lastOk, permuted>>

----------------------------------------------------------------------------
(* Bounds *)

MaxLen == 3

MaxRuns == 2

----------------------------------------------------------------------------
(* Paths *)

base_dir == <<"flutter_bloc_tutorial", "lib">>

RelDirs ==
    { <<"core">>,
      <<"core", "error">>,
      <<"core", "usecases">>,
      <<"features">> }

RECURSIVE SeqsUpTo(_, _)
SeqsUpTo(S, n) ==
    IF n = 0 THEN { <<>> }
    ELSE LET shorter == SeqsUpTo(S, n - 1)
         IN  shorter \cup { Append(s, x) : s \in { t \in shorter : Len(t) = n - 1 }, x \in S }

join(base, rel) == base \o rel

Prefixes(p) == { SubSeq(p, 1, k) : k \in 0..Len(p) }

Paths == UNION { Prefixes(join(base_dir, d)) : d \in RelDirs }

dirname(p) == SubSeq(p, 1, Len(p) - 1)

exists(f, p) == f[p] # "none"

isdirAsExists(f, p) == f[p] # "none"

isdir(f, p) == f[p] = "dir"

ParentClosed(f) == \A p \in Paths : (p # <<>> /\ f[p] # "none") => f[dirname(p)] = "dir"

----------------------------------------------------------------------------
(* Console output: a printed string is the sequence of its lines *)

Line(text, p) == [text |-> text, path |-> p]

CreatedLine(p) == Line("Created: ", p)

BlankLine == Line("", <<>>)

SummaryLine == Line("Directory structure created successfully!", <<>>)

CreatedMessageNewline(p) == << CreatedLine(p), BlankLine >>

CreatedMessageRel(p) == << CreatedLine(SubSeq(p, Len(base_dir) + 1, Len(p))) >>

CreatedMessage(p) == << CreatedLine(p) >>

FinalMessageNoBlank == << SummaryLine >>

FinalMessage == << BlankLine, SummaryLine >>

print(o, s) == o \o s

----------------------------------------------------------------------------
(* os.makedirs(name, exist_ok=True) *)

exist_okFalse == FALSE

exist_ok == TRUE

makedirsChainLeaf(f, name) == << name >>

RECURSIVE makedirsChainParent(_, _)
makedirsChainParent(f, name) ==
    LET head == dirname(name)
    IN  IF Len(head) > 1 /\ ~exists(f, dirname(head))
        THEN Append(makedirsChainParent(f, head), head)
        ELSE << head >>

\* The sequence of mkdir calls the recursion of os.makedirs will make for
\* name, outermost ancestor first: makedirs recurses on the parent while the
\* parent is a non-empty path that does not exist.
RECURSIVE makedirsChain(_, _)
makedirsChain(f, name) ==
    LET head == dirname(name)
    IN  IF head # <<>> /\ ~exists(f, head)
        THEN Append(makedirsChain(f, head), name)
        ELSE << name >>

\* The outcomes the operating system can give to mkdir(name).  When name
\* exists and its parent refuses writes, either error may take priority.
mkdirOutcomes(f, d, name) ==
    LET parent == dirname(name)
    IN  IF f[parent] = "file" THEN { "NotADirectoryError" }
        ELSE IF f[parent] = "none" THEN { "FileNotFoundError" }
        ELSE IF exists(f, name)
             THEN { "FileExistsError" } \cup
                  (IF parent \in d THEN { "PermissionError" } ELSE {})
        ELSE IF parent \in d THEN { "PermissionError" }
        ELSE { "ok" }

mkdirEffectForce(f, o, name) ==
    IF o \in {"ok", "FileExistsError"} THEN [f EXCEPT ![name] = "dir"] ELSE f

\* The filesystem after mkdir(name) returned outcome o: a directory is made
\* only when the call succeeds.
mkdirEffect(f, o, name) == IF o = "ok" THEN [f EXCEPT ![name] = "dir"] ELSE f

\* The OSError handler of os.makedirs: the error of mkdir(name) is re-raised
\* unless exist_ok is set and name is a directory.
ReraisedNever(f, name) == FALSE

Reraised(f, name) == ~exist_ok \/ ~isdir(f, name)

\* The script has no try/except: an exception leaving os.makedirs ends it.
uncaughtPcCaught == "print"

uncaughtPc == "failed"

----------------------------------------------------------------------------
(* Initial state *)

FsStates == { f \in [Paths -> {"none", "dir", "file"}] : f[<<>>] = "dir" /\ ParentClosed(f) }

Init ==
    /\ directories \in SeqsUpTo(RelDirs, MaxLen)
    /\ fs \in FsStates
    /\ denied \in { {} } \cup { {p} : p \in { q \in Paths : fs[q] = "dir" } }
    /\ idx = 1
    /\ path = <<>>
    /\ pc = "for"
    /\ stack = <<>>
    /\ out = <<>>
    /\ err = "none"
    /\ run = 1
    /\ fs0 = fs
    /\ attempted = {}
    /\ lastFs = fs
    /\ lastOk = FALSE
    /\ permuted = FALSE

----------------------------------------------------------------------------
(* The script *)

\* for directory in directories: path = os.path.join(base_dir, directory)
ForNext ==
    /\ pc = "for"
    /\ idx <= Len(directories)
    /\ path' = join(base_dir, directories[idx])
    /\ pc' = "makedirs"
    /\ UNCHANGED <<directories, fs, denied, idx, stack, out, err, run,
                   fs0, attempted, lastFs, lastOk, permuted>>

\* the for loop is exhausted
ForEnd ==
    /\ pc = "for"
    /\ idx > Len(directories)
    /\ pc' = "final"
    /\ UNCHANGED <<directories, fs, denied, idx, path, stack, out, err, run,
                   fs0, attempted, lastFs, lastOk, permuted>>

\* os.makedirs(path, exist_ok=True) is entered: the recursion descends to the
\* first existing ancestor
MakedirsCall ==
    /\ pc = "makedirs"
    /\ stack' = makedirsChain(fs, path)
    /\ attempted' = attempted \cup {idx}
    /\ pc' = "mkdir"
    /\ UNCHANGED <<directories, fs, denied, idx, path, out, err, run,
                   fs0, lastFs, lastOk, permuted>>

\* one mkdir call of the recursion, with the exception handling around it
Mkdir ==
    /\ pc = "mkdir"
    /\ stack # <<>>
    /\ LET name == Head(stack)
           inner == Len(stack) > 1
       IN  \E o \in mkdirOutcomes(fs, denied, name) :
             LET raised == o # "ok" /\ Reraised(fs, name)
                 uncaught == raised /\ ~(inner /\ o = "FileExistsError")
             IN  /\ fs' = mkdirEffect(fs, o, name)
                 /\ IF uncaught
                    THEN /\ pc' = uncaughtPc
                         /\ err' = o
                         /\ stack' = <<>>
                    ELSE /\ pc' = IF Len(stack) = 1 THEN "print" ELSE "mkdir"
                         /\ err' = err
                         /\ stack' = Tail(stack)
    /\ UNCHANGED <<directories, denied, idx, path, out, run,
                   fs0, attempted, lastFs, lastOk, permuted>>

\* print(f'Created: {path}') and the loop advances
PrintCreated ==
    /\ pc = "print"
    /\ out' = print(out, CreatedMessage(path))
    /\ idx' = idx + 1
    /\ pc' = "for"
    /\ UNCHANGED <<directories, fs, denied, path, stack, err, run,
                   fs0, attempted, lastFs, lastOk, permuted>>

\* print('\nDirectory structure created successfully!')
PrintFinal ==
    /\ pc = "final"
    /\ out' = print(out, FinalMessage)
    /\ pc' = "done"
    /\ UNCHANGED <<directories, fs, denied, idx, path, stack, err, run,
                   fs0, attempted, lastFs, lastOk, permuted>>

Terminated == pc \in {"done", "failed"}

\* the script is invoked again on the filesystem the previous run left
Rerun ==
    /\ Terminated
    /\ run < MaxRuns
    /\ run' = run + 1
    /\ lastFs' = fs
    /\ lastOk' = (pc = "done")
    /\ idx' = 1
    /\ path' = <<>>
    /\ pc' = "for"
    /\ stack' = <<>>
    /\ out' = <<>>
    /\ err' = "none"
    /\ attempted' = {}
    /\ UNCHANGED <<directories, fs, denied, fs0, permuted>>

\* the script is invoked on the original filesystem with its list permuted
RerunPermuted ==
    /\ Terminated
    /\ run < MaxRuns
    /\ run' = run + 1
    /\ lastFs' = fs
    /\ lastOk' = (pc = "done")
    /\ fs' = fs0
    /\ \E p \in Permutations(DOMAIN directories) :
         directories' = [k \in DOMAIN directories |-> directories[p[k]]]
    /\ permuted' = (directories' # directories)
    /\ idx' = 1
    /\ path' = <<>>
    /\ pc' = "for"
    /\ stack' = <<>>
    /\ out' = <<>>
    /\ err' = "none"
    /\ attempted' = {}
    /\ UNCHANGED <<denied, fs0>>

RunStep ==
    \/ ForNext
    \/ ForEnd
    \/ MakedirsCall
    \/ Mkdir
    \/ PrintCreated
    \/ PrintFinal

Next == RunStep \/ Rerun

Spec == Init /\ [][Next]_vars

NextPerm == RunStep \/ RerunPermuted

SpecPerm == Init /\ [][NextPerm]_vars

----------------------------------------------------------------------------
(* Properties *)

Target(k) == join(base_dir, directories[k])

Range(s) == { s[k] : k \in DOMAIN s }

\* C1: when a run completes without error, the full path of every entry of
\* directories exists and is a directory, whatever existed before the run.
C1_AllTargetsAreDirs ==
    pc = "done" => \A k \in DOMAIN directories : fs[Target(k)] = "dir"

C1_Witness ==
    /\ pc = "done"
    /\ run = 1
    /\ \E k, j \in DOMAIN directories :
         fs0[Target(k)] = "none" /\ fs0[Target(j)] = "dir"

\* C2: a run started on the filesystem left by a successful run raises no
\* error and leaves the filesystem exactly as that run left it.
C2_Idempotent ==
    (run >= 2 /\ lastOk) => (err = "none" /\ pc # "failed" /\ fs = lastFs)

C2_Witness ==
    /\ run = 2
    /\ lastOk
    /\ pc = "done"
    /\ directories # <<>>
    /\ fs # fs0

C4_LineCountPlusOne ==
    pc = "done" => Len(out) = Len(directories) + 1

\* C4 amended: the output of a successful run has len(directories) + 2
\* lines: one per directory, a blank line and the summary.
C4_LineCountPlusTwo ==
    pc = "done" => Len(out) = Len(directories) + 2

C4_Witness ==
    /\ pc = "done"
    /\ Len(directories) >= 2

\* C5: a run on a permutation of the list, started from the same initial
\* filesystem as a successful run, succeeds too and ends with the same
\* filesystem.
C5_OrderIndependent ==
    (run >= 2 /\ lastOk) => (pc # "failed" /\ (pc = "done" => fs = lastFs))

C5_Witness ==
    /\ run = 2
    /\ lastOk
    /\ permuted
    /\ pc = "done"
    /\ fs # fs0

\* C6: the output is at any time a prefix of: one 'Created: <path>' line per
\* entry in list order, a blank line, the summary; it is all of it when the
\* run succeeded.  The line of entry k is out only once its directory exists,
\* and entry k+1 is attempted only once the line of entry k is out.
C6_OutputOrder ==
    LET expected == [k \in DOMAIN directories |-> CreatedLine(Target(k))]
                        \o << BlankLine, SummaryLine >>
    IN  /\ Len(out) <= Len(expected)
        /\ out = SubSeq(expected, 1, Len(out))
        /\ pc = "done" => out = expected
        /\ \A k \in DOMAIN directories :
             /\ k <= Len(out) => (k \in attempted /\ fs[Target(k)] = "dir")
             /\ k + 1 \in attempted => k <= Len(out)

C6_Witness ==
    /\ pc = "mkdir"
    /\ idx = 2
    /\ Len(out) = 1
    /\ fs0[Target(1)] = "none"
    /\ directories[1] # directories[2]

\* C7: the summary is out only when every entry has been processed without
\* error; once a creation call has failed, neither the 'Created:' line of
\* the failing entry nor the summary is out, and the run prints nothing more.
C7_NoSuccessAfterFailure ==
    /\ [](/\ SummaryLine \in Range(out) =>
                 (err = "none" /\ attempted = DOMAIN directories
                               /\ idx = Len(directories) + 1)
          /\ err # "none" =>
                 (SummaryLine \notin Range(out) /\ CreatedLine(path) \notin Range(out)))
    /\ [][(err # "none" /\ run' = run) => out' = out]_vars

C7_Witness ==
    /\ pc = "failed"
    /\ err # "none"
    /\ idx >= 2
    /\ Len(out) = idx - 1

\* C8 as stated: with an empty list nothing is created, nothing fails and
\* the output is the summary line alone.
C8_EmptyListSummaryOnly ==
    directories = <<>> =>
        /\ fs = fs0
        /\ err = "none"
        /\ pc = "done" => out = << SummaryLine >>

\* C8 amended: with an empty list nothing is created (not even base_dir),
\* nothing fails and the output is a blank line followed by the summary line.
C8_EmptyListBlankAndSummary ==
    directories = <<>> =>
        /\ fs = fs0
        /\ attempted = {}
        /\ err = "none"
        /\ pc # "failed"
        /\ pc = "done" => out = << BlankLine, SummaryLine >>

C8_Witness ==
    /\ directories = <<>>
    /\ pc = "done"
    /\ fs[base_dir] = "none"

\* C9: the existing paths are always closed under taking the parent, and
\* after each successful step the created directory and all its ancestors,
\* base_dir included, are directories.
C9_RecursiveCreation ==
    /\ ParentClosed(fs)
    /\ \A k \in DOMAIN directories :
         (k < idx \/ (k = idx /\ pc = "print")) =>
             \A p \in Prefixes(Target(k)) : fs[p] = "dir"

C9_Witness ==
    /\ pc = "print"
    /\ run = 1
    /\ Len(path) = Len(base_dir) + 2
    /\ \A p \in Prefixes(path) : p # <<>> => fs0[p] = "none"

\* C10 as stated: a step changes no existing directory or file, and a path
\* that comes into existence is the full path of an entry or one of its
\* ancestors not above base_dir.
C10_OnlyAddsBelowBase ==
    [][\A p \in Paths :
          /\ fs[p] # "none" => fs'[p] = fs[p]
          /\ (fs[p] = "none" /\ fs'[p] # "none") =>
                 /\ Len(p) >= Len(base_dir)
                 /\ \E k \in DOMAIN directories : p \in Prefixes(Target(k))]_vars

\* C10 amended: a step changes no existing directory or file, and a path
\* that comes into existence is a directory that is the full path of an
\* entry or one of its ancestors, those of base_dir included.
C10_OnlyAddsAncestors ==
    [][\A p \in Paths :
          /\ fs[p] # "none" => fs'[p] = fs[p]
          /\ (fs[p] = "none" /\ fs'[p] # "none") =>
                 /\ fs'[p] = "dir"
                 /\ \E k \in DOMAIN directories : p \in Prefixes(Target(k))]_vars

C10_Witness ==
    /\ run = 1
    /\ pc = "failed"
    /\ \E p \in Paths : fs0[p] = "none" /\ fs[p] = "dir"
    /\ \E p \in Paths : fs0[p] = "file" /\ fs[p] = "file"

====
